---------------------------- MODULE Spec2Model ----------------------------
(***************************************************************************)
(* A model of the Halo 5 module loader (src/src/loader.rs) and of the two  *)
(* reader extensions it uses (src/src/common.rs).                          *)
(*                                                                         *)
(* The byte stream is a sequence of bytes (0..255).  Machine integers keep *)
(* their width: a u32 is the sequence of its 4 little-endian bytes, a u64  *)
(* the sequence of its 8, exactly as they lie in the stream, and the       *)
(* arithmetic of the loader is carried out on those sequences with carry.  *)
(* Text is a sequence of code points.                                      *)
(***************************************************************************)
EXTENDS Integers, Sequences, FiniteSets, TLC

VARIABLES
    stream,            \* the bytes of the underlying file (never written)
    pos,               \* the reader's stream position, a u64
    overflow_checks,   \* build profile: TRUE panics on integer overflow, FALSE wraps
    pc,                \* the statement of H5Module::read / read_tag that runs next
    header,            \* H5Module.header
    files,             \* H5Module.files
    resource_indices,  \* H5Module.resource_indices
    blocks,            \* H5Module.blocks
    data_offset,       \* H5Module.data_offset, a u64
    name_offset,       \* the local name_offset of H5Module::read, a u64
    id,                \* the index of the loop that is running (names, tags)
    result,            \* "running", "ok", "err" (an Err value returned) or "panic"
    error,             \* the error value returned when result = "err"
    ops                \* the seeks and reads done for names and tag data, in order

vars == << stream, pos, overflow_checks, pc, header, files, resource_indices,
           blocks, data_offset, name_offset, id, result, error, ops >>

---------------------------------------------------------------------------
(* Machine integers as little-endian byte sequences.                       *)

Zeros(n) == [i \in 1..n |-> 0]

RECURSIVE LE(_, _)
\* the w little-endian bytes of the natural number n
LE(n, w) == IF w = 0 THEN << >> ELSE << n % 256 >> \o LE(n \div 256, w - 1)

U32(n) == LE(n, 4)
U64(n) == LE(n, 8)

\* A value too large to be a position or a length of any stream of the model.
Huge == 256 * 65536

\* The value of the byte sequence b when it is below Huge, and Huge otherwise.
Sat(b) ==
    IF \A i \in 4..Len(b) : b[i] = 0
    THEN (IF Len(b) >= 1 THEN b[1] ELSE 0)
         + (IF Len(b) >= 2 THEN 256 * b[2] ELSE 0)
         + (IF Len(b) >= 3 THEN 65536 * b[3] ELSE 0)
    ELSE Huge

RECURSIVE AddCarry(_, _, _)
\* a + b + c for byte sequences of one width w: w + 1 bytes, the last the carry out
AddCarry(a, b, c) ==
    IF a = << >> THEN << c >>
    ELSE LET s == a[1] + b[1] + c
         IN  << s % 256 >> \o AddCarry(Tail(a), Tail(b), s \div 256)

\* the wrapped sum and whether the unsigned addition overflowed
WrapAdd(a, b) == SubSeq(AddCarry(a, b, 0), 1, Len(a))
Overflows(a, b) == AddCarry(a, b, 0)[Len(a) + 1] = 1

\* `as u64` of an unsigned value, `as u32` of a wider one
Zext(a, w) == a \o Zeros(w - Len(a))
Trunc(a, w) == SubSeq(a, 1, w)

\* the sign bit of a two's complement value
Negative(a) == a[Len(a)] >= 128

\* i32 addition overflows when the operands agree in sign and the sum does not
SignedOverflows(a, b) ==
    /\ Negative(a) = Negative(b)
    /\ Negative(WrapAdd(a, b)) # Negative(a)

\* `as usize` of an i32: sign extension to 64 bits
Sext(a, w) == a \o [i \in 1..(w - Len(a)) |-> IF Negative(a) THEN 255 ELSE 0]

---------------------------------------------------------------------------
(* Errors.                                                                 *)

NoError == [kind |-> "none", arg |-> << >>]
IoError == [kind |-> "Io", arg |-> << >>]
InvalidModuleMagic(text) == [kind |-> "InvalidModuleMagic", arg |-> text]
InvalidModuleVersion(v) == [kind |-> "InvalidModuleVersion", arg |-> v]
EmptyTag == [kind |-> "EmptyTag", arg |-> << >>]
NonCompressedSingleTag == [kind |-> "NonCompressedSingleTag", arg |-> << >>]

---------------------------------------------------------------------------
(* The reader extensions of common.rs.                                     *)

\* U+FFFD, what from_utf8_lossy puts for a byte that is not UTF-8
Replacement == 65533

\* String::from_utf8_lossy on bytes that are ASCII or can start no UTF-8
\* sequence (the streams of the model hold no UTF-8 lead byte 0xC2..0xF4):
\* each such byte becomes one U+FFFD.
Utf8Lossy(b) == [i \in 1..Len(b) |-> IF b[i] < 128 THEN b[i] ELSE Replacement]

RECURSIVE TrimEndNul(_)
\* str::trim_end_matches('\0')
TrimEndNul(t) ==
    IF t # << >> /\ t[Len(t)] = 0 THEN TrimEndNul(SubSeq(t, 1, Len(t) - 1)) ELSE t

FixedStringUntrimmed(b) == Utf8Lossy(b)

\* BufReaderExt::read_fixed_string on the `length` bytes it has read
FixedString(b) == TrimEndNul(Utf8Lossy(b))

\* str.chars().rev().collect()
Reverse(t) == [i \in 1..Len(t) |-> t[Len(t) + 1 - i]]

RECURSIVE UntilNul(_, _)
\* BufRead::read_until(0): the bytes from position p (0-based) up to and
\* including the first 0, or up to the end of the stream
UntilNul(s, p) ==
    IF p >= Len(s) THEN << >>
    ELSE IF s[p + 1] = 0 THEN << 0 >>
    ELSE << s[p + 1] >> \o UntilNul(s, p + 1)

read_cstring_keeping_nul(s, p) ==
    LET buffer == UntilNul(s, p)
        ended  == buffer # << >> /\ buffer[Len(buffer)] = 0
        text   == IF ended THEN SubSeq(buffer, 1, Len(buffer) - 1) ELSE buffer
    IN  [ consumed |-> Len(text),
          text     |-> text,
          ok       |-> \A i \in 1..Len(text) : text[i] < 128 ]

\* BufReaderExt::read_cstring at position p: the bytes consumed, the text
\* (terminator dropped) and whether String::from_utf8 accepts it
read_cstring(s, p) ==
    LET buffer == UntilNul(s, p)
        ended  == buffer # << >> /\ buffer[Len(buffer)] = 0
        text   == IF ended THEN SubSeq(buffer, 1, Len(buffer) - 1) ELSE buffer
    IN  [ consumed |-> Len(buffer),
          text     |-> text,
          ok       |-> \A i \in 1..Len(text) : text[i] < 128 ]

RECURSIVE ReadFields(_, _, _, _)
\* A run of fixed-width reads (read_u32::<LE>, read_u64::<LE>, ...) from
\* position p, each stored into its field of rec; the run stops at the first
\* read the stream is too short for.
ReadFields(layout, s, p, rec) ==
    IF layout = << >> THEN [ok |-> TRUE, rec |-> rec, pos |-> p]
    ELSE LET f == Head(layout)
         IN  IF p + f[2] > Len(s)
             THEN [ok |-> FALSE, rec |-> rec, pos |-> Len(s)]
             ELSE ReadFields(Tail(layout), s, p + f[2],
                             [rec EXCEPT ![f[1]] = SubSeq(s, p + 1, p + f[2])])

---------------------------------------------------------------------------
(* ModuleHeader                                                            *)

Mohd == << 109, 111, 104, 100 >>     \* "mohd"
VersionForge == 27
VersionCampaign == 23

DefaultHeader ==
    [ magic |-> << >>, version |-> Zeros(4), module_id |-> Zeros(8),
      item_count |-> Zeros(4), manifest_count |-> Zeros(4),
      resource_index |-> Zeros(4), strings_size |-> Zeros(4),
      resource_count |-> Zeros(4), block_count |-> Zeros(4),
      build_version |-> Zeros(8), checksum |-> Zeros(8) ]

HeaderLayoutWithChecksum(version) ==
    << <<"module_id", 8>>, <<"item_count", 4>>, <<"manifest_count", 4>>,
       <<"resource_index", 4>>, <<"strings_size", 4>>, <<"resource_count", 4>>,
       <<"block_count", 4>>, <<"build_version", 8>>, <<"checksum", 8>> >>

\* the fields read after the version, in order, with their widths
HeaderLayout(version) ==
    << <<"module_id", 8>>, <<"item_count", 4>>, <<"manifest_count", 4>>,
       <<"resource_index", 4>>, <<"strings_size", 4>>, <<"resource_count", 4>>,
       <<"block_count", 4>>, <<"build_version", 8>> >>
    \o (IF version = U32(VersionForge) THEN << <<"checksum", 8>> >> ELSE << >>)

\* ModuleHeader::read on header h, from position p: the header as the call
\* leaves it, the position, and the error (NoError on Ok)
ModuleHeader_read(h, s, p) ==
    IF p + 4 > Len(s) THEN [header |-> h, pos |-> Len(s), error |-> IoError]
    ELSE
    LET h1 == [h EXCEPT !.magic = FixedString(SubSeq(s, p + 1, p + 4))]
    IN
    IF h1.magic # Mohd
    THEN [header |-> h1, pos |-> p + 4, error |-> InvalidModuleMagic(h1.magic)]
    ELSE IF p + 8 > Len(s) THEN [header |-> h1, pos |-> Len(s), error |-> IoError]
    ELSE
    LET h2 == [h1 EXCEPT !.version = SubSeq(s, p + 5, p + 8)]
    IN
    IF h2.version # U32(VersionForge) /\ h2.version # U32(VersionCampaign)
    THEN [header |-> h2, pos |-> p + 8, error |-> InvalidModuleVersion(h2.version)]
    ELSE
    LET r == ReadFields(HeaderLayout(h2.version), s, p + 8, h2)
    IN  [header |-> r.rec, pos |-> r.pos,
         error |-> IF r.ok THEN NoError ELSE IoError]

---------------------------------------------------------------------------
(* ModuleFileEntry                                                         *)

COMPRESSED == 1
HAS_BLOCKS == 2
RAW_FILE == 4

\* FileFlags::contains for a single flag
Contains(flags, flag) == (flags \div flag) % 2 = 1

DefaultFileEntry ==
    [ name_offset |-> Zeros(4), parent_file_index |-> Zeros(4),
      resource_count |-> Zeros(4), first_resource_index |-> Zeros(4),
      block_count |-> Zeros(4), first_block_index |-> Zeros(4),
      data_offset |-> Zeros(8), total_compressed_size |-> Zeros(4),
      total_uncompressed_size |-> Zeros(4), header_alignment |-> Zeros(1),
      tag_alignment |-> Zeros(1), resource_alignment |-> Zeros(1),
      flags |-> 0, global_tag_id |-> Zeros(4), asset_id |-> Zeros(8),
      asset_checksum |-> Zeros(8), group_tag |-> << >>,
      uncompressed_header_size |-> Zeros(4), uncompressed_tag_size |-> Zeros(4),
      uncompressed_resource_size |-> Zeros(4), header_block_count |-> Zeros(2),
      tag_block_count |-> Zeros(2), resource_block_count |-> Zeros(2),
      padding |-> Zeros(2), name |-> << >>, data |-> << >> ]

FileEntryLayout ==
    << <<"name_offset", 4>>, <<"parent_file_index", 4>>, <<"resource_count", 4>>,
       <<"first_resource_index", 4>>, <<"block_count", 4>>,
       <<"first_block_index", 4>>, <<"data_offset", 8>>,
       <<"total_compressed_size", 4>>, <<"total_uncompressed_size", 4>>,
       <<"header_alignment", 1>>, <<"tag_alignment", 1>>,
       <<"resource_alignment", 1>>, <<"flags", 1>>, <<"global_tag_id", 4>>,
       <<"asset_id", 8>>, <<"asset_checksum", 8>>, <<"group_tag", 4>>,
       <<"uncompressed_header_size", 4>>, <<"uncompressed_tag_size", 4>>,
       <<"uncompressed_resource_size", 4>>, <<"header_block_count", 2>>,
       <<"tag_block_count", 2>>, <<"resource_block_count", 2>>, <<"padding", 2>> >>

\* ModuleFileEntry::read from position p: the flag byte is truncated to the
\* three known bits, the group tag is read as fixed text and reversed
ModuleFileEntry_read(s, p) ==
    LET r == ReadFields(FileEntryLayout, s, p, DefaultFileEntry)
    IN  IF ~r.ok THEN r
        ELSE [r EXCEPT !.rec.flags = r.rec.flags[1] % 8,
                       !.rec.group_tag = Reverse(FixedString(r.rec.group_tag))]

\* the log entry of one seek or read
Op(what, i, op, at, n) == [what |-> what, id |-> i, op |-> op, at |-> at, n |-> n]

\* Seek::seek(SeekFrom::Start(at)) on a file: the offset is handed to the
\* system as a signed 64-bit value, and a negative one is refused
SeekFails(at) == Negative(at)

\* ModuleFileEntry::read_name for entry i: the u32 sum, the seek, read_cstring
ModuleFileEntry_read_name(file, i, s, file_name_offset, chk) ==
    IF Overflows(file_name_offset, file.name_offset) /\ chk
    THEN [result |-> "panic", error |-> NoError, file |-> file, moved |-> FALSE,
          pos |-> Zeros(8), ops |-> << >>]
    ELSE
    LET at == Zext(WrapAdd(file_name_offset, file.name_offset), 8)
        c  == read_cstring(s, Sat(at))
        log == << Op("name", i, "seek", at, 0), Op("name", i, "read", at, c.consumed) >>
        end == IF c.consumed = 0 THEN at ELSE U64(Sat(at) + c.consumed)
    IN  IF ~c.ok
        THEN [result |-> "err", error |-> IoError, file |-> file, moved |-> TRUE,
              pos |-> end, ops |-> log]
        ELSE [result |-> "ok", error |-> NoError,
              file |-> [file EXCEPT !.name = c.text], moved |-> TRUE,
              pos |-> end, ops |-> log]

---------------------------------------------------------------------------
(* ModuleBlock                                                             *)

DefaultBlock ==
    [ checksum |-> Zeros(8), compressed_offset |-> Zeros(4),
      compressed_size |-> Zeros(4), uncompressed_offset |-> Zeros(4),
      uncompressed_size |-> Zeros(4), compressed |-> FALSE, padding |-> Zeros(4) ]

BlockLayoutUnpadded(is_forge) ==
    (IF is_forge THEN << <<"checksum", 8>> >> ELSE << >>)
    \o << <<"compressed_offset", 4>>, <<"compressed_size", 4>>,
          <<"uncompressed_offset", 4>>, <<"uncompressed_size", 4>>,
          <<"compressed", 4>> >>

\* the fields of a block record, in order, with their widths
BlockLayout(is_forge) ==
    (IF is_forge THEN << <<"checksum", 8>> >> ELSE << >>)
    \o << <<"compressed_offset", 4>>, <<"compressed_size", 4>>,
          <<"uncompressed_offset", 4>>, <<"uncompressed_size", 4>>,
          <<"compressed", 4>> >>
    \o (IF is_forge THEN << <<"padding", 4>> >> ELSE << >>)

\* ModuleBlock::read from position p: compressed is false only for exactly 0
ModuleBlock_read(s, p, is_forge) ==
    LET r == ReadFields(BlockLayout(is_forge), s, p, DefaultBlock)
    IN  IF ~r.ok THEN r
        ELSE [r EXCEPT !.rec.compressed = (r.rec.compressed # Zeros(4))]

---------------------------------------------------------------------------
(* ZlibDecoder (flate2), for zlib streams made of stored deflate blocks.   *)
(* Blocks with Huffman codes (BTYPE 1 and 2) are outside the model: the    *)
(* streams of the model hold none.                                         *)

Min(a, b) == IF a <= b THEN a ELSE b

\* the two-byte zlib header: method 8, window at most 32K, no preset
\* dictionary, check bits
ZlibHeaderOk(b) ==
    /\ Len(b) >= 2
    /\ b[1] % 16 = 8
    /\ b[1] \div 16 <= 7
    /\ (b[2] \div 32) % 2 = 0
    /\ (256 * b[1] + b[2]) % 31 = 0

RECURSIVE StoredBlocks(_, _)
\* the bytes the deflate blocks of b yield from position p (0-based) on,
\* up to the end of the final block or to the first fault
StoredBlocks(b, p) ==
    IF p + 5 > Len(b) THEN << >>
    ELSE
    LET bfinal == b[p + 1] % 2
        btype  == (b[p + 1] \div 2) % 4
        len    == b[p + 2] + 256 * b[p + 3]
        nlen   == b[p + 4] + 256 * b[p + 5]
        avail  == Min(len, Len(b) - (p + 5))
        lit    == SubSeq(b, p + 6, p + 5 + avail)
    IN  IF btype # 0 \/ len + nlen # 65535 THEN << >>
        ELSE IF avail < len \/ bfinal = 1 THEN lit
        ELSE lit \o StoredBlocks(b, p + 5 + len)

\* every byte the decoder can produce from b
Inflated(b) == IF ZlibHeaderOk(b) THEN StoredBlocks(b, 2) ELSE << >>

\* ZlibDecoder::new(input).read_exact(&mut [0u8; n]): Ok with the n bytes, or
\* an error when the decoder yields fewer
InflateExact(input, n) ==
    LET out == Inflated(input)
    IN  IF n = 0 THEN [ok |-> TRUE, bytes |-> << >>]
        ELSE IF Len(out) >= n THEN [ok |-> TRUE, bytes |-> SubSeq(out, 1, n)]
        ELSE [ok |-> FALSE, bytes |-> << >>]

---------------------------------------------------------------------------
(* H5Module::read_tag                                                      *)

\* reader.seek(SeekFrom::Start(at)); reader.read_exact(&mut [0u8; n]) for the
\* data of entry i: whether both succeed, the bytes, the position after
SeekRead(i, s, at, n) ==
    IF SeekFails(at)
    THEN [ok |-> FALSE, bytes |-> << >>, pos |-> at, moved |-> FALSE,
          ops |-> << Op("tag", i, "seek", at, 0) >>]
    ELSE
    LET log == << Op("tag", i, "seek", at, 0), Op("tag", i, "read", at, n) >>
    IN  IF n = 0
        THEN [ok |-> TRUE, bytes |-> << >>, pos |-> at, moved |-> TRUE, ops |-> log]
        ELSE IF Sat(at) + n > Len(s)
        THEN [ok |-> FALSE, bytes |-> << >>, moved |-> TRUE, ops |-> log,
              pos |-> IF Sat(at) > Len(s) THEN at ELSE U64(Len(s))]
        ELSE [ok |-> TRUE, bytes |-> SubSeq(s, Sat(at) + 1, Sat(at) + n),
              pos |-> U64(Sat(at) + n), moved |-> TRUE, ops |-> log]

\* the write of one block's output into the data buffer:
\* data_buffer[dest_start..dest_end].copy_from_slice(&output_buffer)
WriteBlockAtStart(buf, start, out) ==
    [k \in 1..Len(buf) |-> IF k <= Len(out) THEN out[k] ELSE buf[k]]

WriteBlock(buf, start, out) ==
    [k \in 1..Len(buf) |->
        IF k > start /\ k <= start + Len(out) THEN out[k - start] ELSE buf[k]]

\* One turn of the loop over the blocks of entry i.  st is the state of the
\* call: result ("running" while the loop goes on), error, buf, pos, ops.
BlockStep(st, block, i, block_offset, s, chk) ==
    IF st.result # "running" THEN st
    ELSE
    LET co == Zext(block.compressed_offset, 8)
    IN
    IF Overflows(block_offset, co) /\ chk THEN [st EXCEPT !.result = "panic"]
    ELSE
    LET offset == WrapAdd(block_offset, co)
        r      == SeekRead(i, s, offset, Sat(block.compressed_size))
        st1    == [st EXCEPT !.pos = r.pos, !.ops = st.ops \o r.ops]
        usize  == Sat(block.uncompressed_size)
        start  == Sat(block.uncompressed_offset)
    IN
    IF ~r.ok THEN [st1 EXCEPT !.result = "err", !.error = IoError]
    ELSE
    LET z == InflateExact(r.bytes, usize)
    IN
    IF block.compressed /\ ~z.ok
    THEN [st1 EXCEPT !.result = "err", !.error = IoError]
    ELSE IF ~block.compressed /\ usize # Len(r.bytes)
    THEN [st1 EXCEPT !.result = "panic"]      \* copy_from_slice: lengths differ
    ELSE IF start + usize > Len(st.buf)
    THEN [st1 EXCEPT !.result = "panic"]      \* the range is out of the buffer
    ELSE [st1 EXCEPT !.buf = WriteBlock(st.buf, start,
                                 IF block.compressed THEN z.bytes ELSE r.bytes)]

RECURSIVE BlockLoop(_, _, _, _, _, _)
\* `for block in blocks`, over the blocks in the order given
BlockLoop(st, order, i, block_offset, s, chk) ==
    IF order = << >> THEN st
    ELSE BlockLoop(BlockStep(st, Head(order), i, block_offset, s, chk),
                   Tail(order), i, block_offset, s, chk)

\* &self.blocks[first_block_index as usize
\*              ..(first_block_index + block_count as i32) as usize]:
\* the bounds of the slice, and whether taking it panics
SliceLo(file) == Sat(Sext(file.first_block_index, 8))
SliceHi(file) == Sat(Sext(WrapAdd(file.first_block_index, file.block_count), 8))
SlicePanics(file, blks, chk) ==
    \/ SignedOverflows(file.first_block_index, file.block_count) /\ chk
    \/ SliceLo(file) > SliceHi(file)
    \/ SliceHi(file) > Len(blks)

\* the state a call of read_tag starts in
TagStart(p) ==
    [result |-> "running", error |-> NoError, buf |-> << >>, pos |-> p, ops |-> << >>]

EmptyTagCheckMissing(file) == FALSE

\* the first statement of read_tag: is the tag empty
EmptyTagCheck(file) == file.total_uncompressed_size = Zeros(4)

IsCompressedOrRaw(file) ==
    Contains(file.flags, COMPRESSED) \/ Contains(file.flags, RAW_FILE)

\* the flag test of the single-tag path
IsCompressed(file) == Contains(file.flags, COMPRESSED)

\* H5Module::read_tag(index): the outcome ("ok", "err" or "panic"), the error,
\* the data buffer of the entry after the call, the position and the seeks
\* and reads done
H5Module_read_tag(fs, blks, doff, index, s, p, chk) ==
    LET st0 == TagStart(p)
    IN
    IF index >= Len(fs) THEN [st0 EXCEPT !.result = "panic"]
    ELSE
    LET file == fs[index + 1]
        keep == [st0 EXCEPT !.buf = file.data]
    IN
    IF EmptyTagCheck(file) THEN [keep EXCEPT !.result = "err", !.error = EmptyTag]
    ELSE IF Overflows(file.data_offset, doff) /\ chk
    THEN [keep EXCEPT !.result = "panic"]
    ELSE
    LET block_offset == WrapAdd(file.data_offset, doff)
        tus == Sat(file.total_uncompressed_size)
    IN
    IF Contains(file.flags, HAS_BLOCKS)
    THEN IF SlicePanics(file, blks, chk) THEN [keep EXCEPT !.result = "panic"]
         ELSE
         LET slice == SubSeq(blks, SliceLo(file) + 1, SliceHi(file))
             done  == BlockLoop([st0 EXCEPT !.buf = Zeros(tus)], slice, index,
                                block_offset, s, chk)
         IN  IF done.result = "running" THEN [done EXCEPT !.result = "ok"]
             ELSE [done EXCEPT !.buf = file.data]
    ELSE
    LET r  == SeekRead(index, s, block_offset, Sat(file.total_compressed_size))
        st1 == [keep EXCEPT !.pos = r.pos, !.ops = r.ops]
    IN
    IF ~r.ok THEN [st1 EXCEPT !.result = "err", !.error = IoError]
    ELSE IF IsCompressed(file)
    THEN LET z == InflateExact(r.bytes, tus)
         IN  IF z.ok THEN [st1 EXCEPT !.result = "ok", !.buf = z.bytes]
             ELSE [st1 EXCEPT !.result = "err", !.error = IoError]
    ELSE [st1 EXCEPT !.result = "err", !.error = NonCompressedSingleTag]

---------------------------------------------------------------------------
(* H5Module::read, statement by statement.                                 *)

RECURSIVE ReadEntries(_, _, _)
\* (0..item_count).map(|_| { file.read(reader).unwrap(); file }).collect()
ReadEntries(n, s, p) ==
    IF n = 0 THEN [ok |-> TRUE, list |-> << >>, pos |-> p]
    ELSE LET r == ModuleFileEntry_read(s, p)
         IN  IF ~r.ok THEN [ok |-> FALSE, list |-> << >>, pos |-> r.pos]
             ELSE LET rest == ReadEntries(n - 1, s, r.pos)
                  IN  [rest EXCEPT !.list = << r.rec >> \o rest.list]

RECURSIVE ReadIndices(_, _, _)
\* (0..resource_count).map(|_| reader.read_i32::<LE>().unwrap()).collect()
ReadIndices(n, s, p) ==
    IF n = 0 THEN [ok |-> TRUE, list |-> << >>, pos |-> p]
    ELSE IF p + 4 > Len(s) THEN [ok |-> FALSE, list |-> << >>, pos |-> Len(s)]
    ELSE LET rest == ReadIndices(n - 1, s, p + 4)
         IN  [rest EXCEPT !.list = << SubSeq(s, p + 1, p + 4) >> \o rest.list]

RECURSIVE ReadBlockTable(_, _, _, _)
\* (0..block_count).map(|_| { block.read(reader, is_forge).unwrap(); block }).collect()
ReadBlockTable(n, s, p, is_forge) ==
    IF n = 0 THEN [ok |-> TRUE, list |-> << >>, pos |-> p]
    ELSE LET r == ModuleBlock_read(s, p, is_forge)
         IN  IF ~r.ok THEN [ok |-> FALSE, list |-> << >>, pos |-> r.pos]
             ELSE LET rest == ReadBlockTable(n - 1, s, r.pos, is_forge)
                  IN  [rest EXCEPT !.list = << r.rec >> \o rest.list]

\* the call ends: Ok(()), Err(e) or a panic
Return(res, e) ==
    /\ pc' = "done"
    /\ result' = res
    /\ error' = e

\* the position after a table read that began at position p (a u64)
After(p, r) == IF r.pos = Sat(p) THEN p ELSE U64(r.pos)

\* self.header.read(reader)?
ReadHeader ==
    /\ pc = "header"
    /\ LET r == ModuleHeader_read(header, stream, Sat(pos))
       IN  /\ header' = r.header
           /\ pos' = U64(r.pos)
           /\ IF r.error # NoError THEN Return("err", r.error)
              ELSE pc' = "entries" /\ UNCHANGED << result, error >>
    /\ UNCHANGED << stream, overflow_checks, files, resource_indices, blocks,
                    data_offset, name_offset, id, ops >>

\* self.files = (0..self.header.item_count).map(..).collect()
ReadFileEntries ==
    /\ pc = "entries"
    /\ LET r == ReadEntries(Sat(header.item_count), stream, Sat(pos))
       IN  /\ pos' = After(pos, r)
           /\ IF r.ok
              THEN files' = r.list /\ pc' = "name_offset"
                   /\ UNCHANGED << result, error >>
              ELSE UNCHANGED files /\ Return("panic", NoError)
    /\ UNCHANGED << stream, overflow_checks, header, resource_indices, blocks,
                    data_offset, name_offset, id, ops >>

\* let name_offset = reader.stream_position()?
RecordNameOffset ==
    /\ pc = "name_offset"
    /\ name_offset' = pos
    /\ id' = 0
    /\ pc' = IF files = << >> THEN "resources" ELSE "names"
    /\ UNCHANGED << stream, pos, overflow_checks, header, files, resource_indices,
                    blocks, data_offset, result, error, ops >>

\* one turn of: for file in &mut self.files { file.read_name(reader, name_offset as u32)? }
ReadName ==
    /\ pc = "names"
    /\ LET r == ModuleFileEntry_read_name(files[id + 1], id, stream,
                                          Trunc(name_offset, 4), overflow_checks)
       IN  /\ files' = [files EXCEPT ![id + 1] = r.file]
           /\ pos' = IF r.moved THEN r.pos ELSE pos
           /\ ops' = ops \o r.ops
           /\ IF r.result = "ok"
              THEN /\ id' = id + 1
                   /\ pc' = IF id + 1 = Len(files) THEN "resources" ELSE "names"
                   /\ UNCHANGED << result, error >>
              ELSE UNCHANGED id /\ Return(r.result, r.error)
    /\ UNCHANGED << stream, overflow_checks, header, resource_indices, blocks,
                    data_offset, name_offset >>

\* self.resource_indices = (0..self.header.resource_count).map(..).collect()
ReadResourceIndices ==
    /\ pc = "resources"
    /\ LET r == ReadIndices(Sat(header.resource_count), stream, Sat(pos))
       IN  /\ pos' = After(pos, r)
           /\ IF r.ok
              THEN resource_indices' = r.list /\ pc' = "blocks"
                   /\ UNCHANGED << result, error >>
              ELSE UNCHANGED resource_indices /\ Return("panic", NoError)
    /\ UNCHANGED << stream, overflow_checks, header, files, blocks, data_offset,
                    name_offset, id, ops >>

\* self.blocks = (0..self.header.block_count).map(..).collect()
ReadBlocks ==
    /\ pc = "blocks"
    /\ LET r == ReadBlockTable(Sat(header.block_count), stream, Sat(pos),
                               header.version = U32(VersionForge))
       IN  /\ pos' = After(pos, r)
           /\ IF r.ok
              THEN blocks' = r.list /\ pc' = "data_offset"
                   /\ UNCHANGED << result, error >>
              ELSE UNCHANGED blocks /\ Return("panic", NoError)
    /\ UNCHANGED << stream, overflow_checks, header, files, resource_indices,
                    data_offset, name_offset, id, ops >>

\* self.data_offset = reader.stream_position()?
RecordDataOffset ==
    /\ pc = "data_offset"
    /\ data_offset' = pos
    /\ id' = 0
    /\ IF files = << >> THEN Return("ok", NoError)
       ELSE pc' = "tags" /\ UNCHANGED << result, error >>
    /\ UNCHANGED << stream, pos, overflow_checks, header, files, resource_indices,
                    blocks, name_offset, ops >>

\* what a call of read_tag(index) does to the module and the reader
ApplyReadTag(index) ==
    LET r == H5Module_read_tag(files, blocks, data_offset, index, stream, pos,
                               overflow_checks)
    IN  /\ files' = IF index < Len(files)
                    THEN [files EXCEPT ![index + 1].data = r.buf] ELSE files
        /\ pos' = r.pos
        /\ ops' = ops \o r.ops

TagOutcome(index) ==
    H5Module_read_tag(files, blocks, data_offset, index, stream, pos,
                      overflow_checks)

\* whether the loop over the entries goes on after read_tag(id) returned r
LoopContinuesAlways(r) == TRUE

LoopContinues(r) == r.result = "ok"

\* one turn of: for id in 0..self.files.len() { self.read_tag(id as u32, reader)? }
ReadTag ==
    /\ pc = "tags"
    /\ ApplyReadTag(id)
    /\ IF LoopContinues(TagOutcome(id))
       THEN /\ id' = id + 1
            /\ IF id + 1 = Len(files) THEN Return("ok", NoError)
               ELSE pc' = "tags" /\ UNCHANGED << result, error >>
       ELSE UNCHANGED id /\ Return(TagOutcome(id).result, TagOutcome(id).error)
    /\ UNCHANGED << stream, overflow_checks, header, resource_indices, blocks,
                    data_offset, name_offset >>

---------------------------------------------------------------------------
(* The module files the loader is run on.                                  *)

MaxItems == 2        \* file entries of a module
MaxResources == 2    \* resource indices of a module
MaxBlocks == 2       \* records of the block table

SeqsUpTo(S, n) == UNION { [1..k -> S] : k \in 0..n }

RECURSIVE Concat(_)
Concat(ss) == IF ss = << >> THEN << >> ELSE Head(ss) \o Concat(Tail(ss))

RECURSIVE Sum(_)
Sum(b) == IF b = << >> THEN 0 ELSE Head(b) + Sum(Tail(b))

\* the Adler-32 trailer of a zlib stream, big-endian
Adler32(payload) ==
    LET a == (1 + Sum(payload)) % 65521
        b == Sum([k \in 1..Len(payload) |-> 1 + Sum(SubSeq(payload, 1, k))]) % 65521
    IN  << b \div 256, b % 256, a \div 256, a % 256 >>

\* a zlib stream holding payload in one final stored block
ZStored(payload) ==
    << 120, 1, 1, Len(payload), 0, 255 - Len(payload), 255 >> \o payload
    \o Adler32(payload)

AB == << 65, 66 >>
CD == << 67, 68 >>
EE == << 69 >>

\* the data region: "AB" deflated at 0, "CD" raw at 13, "E" deflated at 15
DataRegion == ZStored(AB) \o CD \o ZStored(EE)

AllOnes(w) == [i \in 1..w |-> 255]

Block(co, cs, uo, us, c) ==
    [DefaultBlock EXCEPT !.compressed_offset = U32(co), !.compressed_size = U32(cs),
                         !.uncompressed_offset = U32(uo),
                         !.uncompressed_size = U32(us), !.compressed = c]

\* block descriptors over the data region: sound ones with disjoint and with
\* overlapping destinations, and faulty ones
BlockPool ==
    << Block(0, 13, 0, 2, TRUE),     \* "AB" to [0, 2)
       Block(13, 2, 2, 2, FALSE),    \* "CD" to [2, 4)
       Block(15, 12, 1, 1, TRUE),    \* "E"  to [1, 2)
       Block(13, 2, 1, 2, FALSE),    \* "CD" to [1, 3)
       Block(13, 2, 0, 1, FALSE),    \* raw, sizes differ
       Block(0, 13, 0, 3, TRUE),     \* deflated, too few bytes come out
       Block(26, 2, 0, 2, FALSE) >>  \* runs past the end of the stream

Entry(no, flags, doff, tcs, tus, fbi, bc) ==
    [DefaultFileEntry EXCEPT !.name_offset = no, !.flags = flags,
                             !.data_offset = doff,
                             !.total_compressed_size = U32(tcs),
                             !.total_uncompressed_size = U32(tus),
                             !.first_block_index = fbi, !.block_count = U32(bc)]

\* the tags a file entry may describe (its name offset aside)
EntryKinds ==
    { Entry(Zeros(4), 1, U64(0), 13, 2, U32(0), 0),        \* deflated "AB"
      Entry(Zeros(4), 0, U64(13), 2, 2, U32(0), 0),        \* single, not compressed
      Entry(Zeros(4), 0, U64(20), 13, 2, U32(0), 0),       \* the same, read too long
      Entry(Zeros(4), 1, U64(0), 13, 0, U32(0), 0),        \* empty
      Entry(Zeros(4), 2, U64(0), 0, 4, U32(0), 2),         \* blocks 0 and 1
      Entry(Zeros(4), 3, U64(0), 0, 4, U32(1), 1),         \* block 1
      Entry(Zeros(4), 1, U64(13), 2, 2, U32(0), 0),        \* no zlib stream
      Entry(Zeros(4), 1, AllOnes(8), 13, 2, U32(0), 0),    \* region base overflows
      Entry(Zeros(4), 2, U64(0), 0, 2, AllOnes(4), 1) }    \* first_block_index -1

\* the name table "a\0bc\0" and the name offsets an entry may carry
NameTable == << 97, 0, 98, 99, 0 >>
NameOffsets == { U32(0), U32(2), U32(5), AllOnes(4), << 112, 255, 255, 255 >> }

\* the bytes of a header, a file entry and a block record
EncHeader(magic, version, ic, rc, bc) ==
    magic \o version \o U64(258) \o U32(ic) \o U32(3) \o U32(4) \o U32(5)
    \o U32(rc) \o U32(bc) \o U64(6)
    \o (IF version = U32(VersionForge) THEN U64(7) ELSE << >>)

EncEntry(e, flagbyte) ==
    e.name_offset \o U32(8) \o U32(9) \o U32(10) \o e.block_count
    \o e.first_block_index \o e.data_offset \o e.total_compressed_size
    \o e.total_uncompressed_size \o << 11, 12, 13, flagbyte >> \o U32(14)
    \o U64(15) \o U64(16) \o << 103, 97, 116, 0 >> \o U32(17) \o U32(18)
    \o U32(19) \o << 20, 0, 21, 0, 22, 0, 23, 0 >>

EncBlock(b, is_forge) ==
    (IF is_forge THEN U64(24) ELSE << >>)
    \o b.compressed_offset \o b.compressed_size \o b.uncompressed_offset
    \o b.uncompressed_size \o (IF b.compressed THEN << 0, 1, 0, 0 >> ELSE Zeros(4))
    \o (IF is_forge THEN U32(25) ELSE << >>)

\* a whole module file: header, entries, name table, resource indices,
\* block table (the first bc descriptors of the pool), data region
EncModule(magic, version, es, rc, bc) ==
    EncHeader(magic, version, Len(es), rc, bc)
    \o Concat([k \in 1..Len(es) |-> EncEntry(es[k], 248 + es[k].flags)])
    \o NameTable
    \o Concat([k \in 1..rc |-> U32(30 + k)])
    \o Concat([k \in 1..bc |-> EncBlock(BlockPool[k], version = U32(VersionForge))])
    \o DataRegion

Versions == { U32(VersionForge), U32(VersionCampaign) }

\* magics and versions a header may hold
Magics ==
    { Mohd, << 77, 79, 72, 68 >>, << 109, 111, 0, 0 >>, Zeros(4),
      << 109, 111, 104, 255 >>, << 0, 109, 111, 104 >>, << 100, 104, 111, 109 >> }
OtherVersions ==
    { U32(0), U32(22), U32(24), U32(26), U32(28), << 0, 0, 0, 27 >>,
      << 27, 1, 0, 0 >>, << 23, 0, 0, 128 >>, AllOnes(4) }

WithName(e, no) == [e EXCEPT !.name_offset = no]
Plain(no) == WithName(Entry(Zeros(4), 1, U64(0), 13, 2, U32(0), 0), no)

\* headers of every magic and version, on an otherwise sound module
HeaderInputs ==
    { EncModule(m, v, << Plain(U32(0)) >>, 1, 1) :
        m \in Magics, v \in Versions \cup OtherVersions }

\* every table size in both formats
TableInputs ==
    { EncModule(Mohd, v, es, rc, bc) :
        v \in Versions, rc \in 0..MaxResources, bc \in 0..MaxBlocks,
        es \in { << >>, << Plain(U32(0)) >>,
                 << Entry(U32(2), 2, U64(0), 0, 4, U32(0), 2) >> } }

\* entries of every name offset, and entries of every kind
EntryInputs ==
    { EncModule(Mohd, v, es, 1, MaxBlocks) :
        v \in Versions,
        es \in { [k \in 1..Len(ns) |-> Plain(ns[k])] : ns \in SeqsUpTo(NameOffsets, MaxItems) }
               \cup SeqsUpTo(EntryKinds, MaxItems) }

Prefixes(s) == { SubSeq(s, 1, n) : n \in 0..Len(s) }

\* files cut short at every length
CutInputs ==
    UNION { Prefixes(EncModule(Mohd, v, << Plain(U32(2)) >>, rc, rc)) :
              v \in Versions, rc \in {0, 1} }

Inputs == HeaderInputs \cup TableInputs \cup EntryInputs \cup CutInputs

Init ==
    /\ stream \in Inputs
    /\ pos = U64(0)
    /\ overflow_checks \in BOOLEAN
    /\ pc = "header"
    /\ header = DefaultHeader
    /\ files = << >>
    /\ resource_indices = << >>
    /\ blocks = << >>
    /\ data_offset = Zeros(8)
    /\ name_offset = Zeros(8)
    /\ id = 0
    /\ result = "running"
    /\ error = NoError
    /\ ops = << >>

Next ==
    \/ ReadHeader
    \/ ReadFileEntries
    \/ RecordNameOffset
    \/ ReadName
    \/ ReadResourceIndices
    \/ ReadBlocks
    \/ RecordDataOffset
    \/ ReadTag

Spec == Init /\ [][Next]_vars

---------------------------------------------------------------------------
(* read_tag called on a module that is already decoded.                    *)

\* two bytes, then the data region; the module's data_offset is 1 and the
\* block entries' own data_offset is 1, so their region base is 2
TagStream == << 9, 9 >> \o DataRegion
TagDataOffset == U64(1)
TagPos == U64(5)

PoolSet == { BlockPool[k] : k \in 1..Len(BlockPool) }

WithData(e, d) == [e EXCEPT !.data = d]

BlockEntries ==
    { WithData(Entry(Zeros(4), f, U64(1), 0, tus, fbi, bc), << 7 >>) :
        f \in {2, 3}, tus \in {3, 4}, fbi \in {AllOnes(4), U32(0), U32(1)},
        bc \in 0..MaxBlocks }
    \cup { WithData(Entry(Zeros(4), 2, U64(1), 0, 0, U32(0), bc), << 7 >>) :
             bc \in 0..MaxBlocks }

SingleEntries ==
    { WithData(Entry(Zeros(4), f, doff, tcs, tus, U32(0), 0), d) :
        f \in {0, 1, 4, 5}, doff \in {U64(1), U64(14), U64(40), AllOnes(8)},
        tcs \in {0, 2, 13, 30}, tus \in {0, 1, 2, 3}, d \in {<< >>, << 7 >>} }

TagModules ==
    { << << e >>, bs >> : e \in BlockEntries, bs \in SeqsUpTo(PoolSet, MaxBlocks) }
    \cup { << << e >>, << >> >> : e \in SingleEntries }

InitTag ==
    /\ stream = TagStream
    /\ pos = TagPos
    /\ overflow_checks \in BOOLEAN
    /\ pc = "call"
    /\ header = DefaultHeader
    /\ \E m \in TagModules : files = m[1] /\ blocks = m[2]
    /\ resource_indices = << >>
    /\ data_offset = TagDataOffset
    /\ name_offset = Zeros(8)
    /\ id = 0
    /\ result = "running"
    /\ error = NoError
    /\ ops = << >>

\* module.read_tag(index, reader), for any index up to files.len()
CallReadTag ==
    /\ pc = "call"
    /\ \E index \in 0..Len(files) :
        /\ ApplyReadTag(index)
        /\ id' = index
        /\ Return(TagOutcome(index).result, TagOutcome(index).error)
    /\ UNCHANGED << stream, overflow_checks, header, resource_indices, blocks,
                    data_offset, name_offset >>

NextTag == CallReadTag

SpecTag == InitTag /\ [][NextTag]_vars

---------------------------------------------------------------------------
(* Properties of read_tag, checked under SpecTag.                          *)

\* read_tag has been called on an entry of the module, which is TagFile
Called == pc = "done" /\ id < Len(files)
TagFile == files[id + 1]

\* the indices (1-based) of the blocks in
\* [first_block_index, first_block_index + block_count)
SliceOf(file) ==
    (Sat(file.first_block_index) + 1)
        .. (Sat(file.first_block_index) + Sat(file.block_count))

\* the region base of an entry and the absolute place of a block, as numbers
RegionBase(file) == Sat(data_offset) + Sat(file.data_offset)
BlockAt(file, b) == RegionBase(file) + Sat(b.compressed_offset)

\* the payload of a block: its raw bytes, inflated if the block is compressed
Payload(file, b) ==
    LET raw == SubSeq(stream, BlockAt(file, b) + 1,
                      BlockAt(file, b) + Sat(b.compressed_size))
    IN  IF b.compressed THEN InflateExact(raw, Sat(b.uncompressed_size)).bytes
        ELSE raw

\* the destination range of a block and what a buffer holds there
Dest(b) ==
    (Sat(b.uncompressed_offset) + 1)
        .. (Sat(b.uncompressed_offset) + Sat(b.uncompressed_size))
Holds(buf, file, b) ==
    /\ Sat(b.uncompressed_offset) + Sat(b.uncompressed_size) <= Len(buf)
    /\ SubSeq(buf, Sat(b.uncompressed_offset) + 1,
              Sat(b.uncompressed_offset) + Sat(b.uncompressed_size))
         = Payload(file, b)

\* the buffer the loop over the blocks builds when it takes the blocks of the
\* slice in the order perm
BufferInOrder(file, perm) ==
    LET lo == Sat(file.first_block_index)
        n  == Sat(file.block_count)
    IN  BlockLoop([TagStart(Zeros(8)) EXCEPT
                      !.buf = Zeros(Sat(file.total_uncompressed_size))],
                  [j \in 1..n |-> blocks[lo + perm[j]]], id,
                  WrapAdd(file.data_offset, data_offset), stream,
                  overflow_checks).buf

\* the blocks of the slice whose destination no other block of the slice touches
Alone(file) ==
    { k \in SliceOf(file) :
        \A j \in SliceOf(file) \ {k} : Dest(blocks[j]) \cap Dest(blocks[k]) = {} }

\* the blocks of S lie in the entry's buffer, and would for any order of the loop
PlacedInAnyOrder(file, S) ==
    /\ Len(file.data) = Sat(file.total_uncompressed_size)
    /\ \A k \in S : Holds(file.data, file, blocks[k])
    /\ \A perm \in Permutations(1..Sat(file.block_count)) :
         \A k \in S : Holds(BufferInOrder(file, perm), file, blocks[k])

BlockPathOk == Called /\ result = "ok" /\ Contains(TagFile.flags, HAS_BLOCKS)

\* C1 as claimed: after a successful reconstruction by blocks the buffer has
\* total_uncompressed_size bytes and holds the payload of EVERY block of the
\* slice at the block's destination range, whatever the order of the blocks.
C1_EveryBlockPlaced == BlockPathOk => PlacedInAnyOrder(TagFile, SliceOf(TagFile))

\* C1 amended: after a successful reconstruction by blocks the buffer has
\* total_uncompressed_size bytes and holds, whatever the order of the blocks,
\* the payload of every block of the slice whose destination range overlaps
\* the destination range of no other block of the slice.
C1_DisjointBlocksPlaced == BlockPathOk => PlacedInAnyOrder(TagFile, Alone(TagFile))

\* a deflated and a raw block with disjoint destinations rebuilt "ABCD"
C1_Witness ==
    /\ BlockPathOk
    /\ Cardinality(SliceOf(TagFile)) = 2
    /\ Alone(TagFile) = SliceOf(TagFile)
    /\ \E j, k \in SliceOf(TagFile) : blocks[j].compressed /\ ~blocks[k].compressed
    /\ TagFile.data = AB \o CD

SinglePathPlain ==
    Called /\ ~Contains(TagFile.flags, HAS_BLOCKS) /\ ~Contains(TagFile.flags, COMPRESSED)

\* C2 as claimed: a single tag without COMPRESSED always ends in
\* NonCompressedSingleTag, whatever the stream holds and whatever the entry's
\* data_offset and total_compressed_size are (empty tags, which end in
\* EmptyTag before the flags are looked at, set aside).
C2_AlwaysNonCompressedError ==
    (SinglePathPlain /\ TagFile.total_uncompressed_size # Zeros(4))
    => result = "err" /\ error = NonCompressedSingleTag

\* the stream holds the entry's total_compressed_size bytes at its region
\* base, the base being data_offset + entry.data_offset without overflow
SingleReadSucceeds(file) ==
    /\ ~Overflows(file.data_offset, data_offset)
    /\ \/ /\ file.total_compressed_size = Zeros(4)
          /\ ~Negative(WrapAdd(file.data_offset, data_offset))
       \/ RegionBase(file) + Sat(file.total_compressed_size) <= Len(stream)

\* C2 amended: a single tag without COMPRESSED ends in NonCompressedSingleTag
\* when its total_uncompressed_size is not 0 and the read of its
\* total_compressed_size bytes at the region base succeeds; the flag is tested
\* after the empty-tag test and after that read.
C2_NonCompressedErrorAfterRead ==
    ( /\ SinglePathPlain
      /\ TagFile.total_uncompressed_size # Zeros(4)
      /\ SingleReadSucceeds(TagFile) )
    => result = "err" /\ error = NonCompressedSingleTag

\* a plain single tag whose bytes were read, ending in the error
C2_Witness ==
    /\ SinglePathPlain
    /\ TagFile.total_uncompressed_size # Zeros(4)
    /\ TagFile.total_compressed_size # Zeros(4)
    /\ SingleReadSucceeds(TagFile)
    /\ Len(ops) = 2
    /\ error = NonCompressedSingleTag

\* C3: a call of read_tag on an entry whose total_uncompressed_size is 0 ends
\* in EmptyTag and does no seek and no read: the position, the log of seeks
\* and reads and the entry's data buffer are as before the call.
C3_EmptyTagBeforeAnyRead ==
    [][ ( /\ pc = "call" /\ pc' = "done"
          /\ id' < Len(files)
          /\ files[id' + 1].total_uncompressed_size = Zeros(4) )
        => ( /\ result' = "err" /\ error' = EmptyTag
             /\ pos' = pos /\ ops' = ops /\ files' = files ) ]_vars

\* an empty entry with blocks to read and a buffer of its own was refused
C3_Witness ==
    /\ Called
    /\ TagFile.total_uncompressed_size = Zeros(4)
    /\ Contains(TagFile.flags, HAS_BLOCKS)
    /\ Sat(TagFile.block_count) > 0 /\ Len(blocks) > 0
    /\ TagFile.data = << 7 >>
    /\ error = EmptyTag /\ pos = TagPos /\ ops = << >>

---------------------------------------------------------------------------
(* Properties of H5Module::read, checked under Spec.                       *)

First4 == SubSeq(stream, 1, 4)
VersionBytes == SubSeq(stream, 5, 8)

\* the little-endian u32 held by four bytes is n (n below 256)
IsU32(b, n) == b[1] = n /\ b[2] = 0 /\ b[3] = 0 /\ b[4] = 0

\* the text of four bytes: ASCII as it is, bytes that are no UTF-8 as U+FFFD
TextOf(b) == [i \in 1..4 |-> IF b[i] < 128 THEN b[i] ELSE 65533]
\* the length of a text without its trailing NULs
TrimmedLen(t) ==
    CHOOSE n \in 0..Len(t) :
        /\ \A i \in (n + 1)..Len(t) : t[i] = 0
        /\ n = 0 \/ t[n] # 0

BadMagic == pc # "header" /\ Len(stream) >= 4 /\ First4 # Mohd

\* C4 as claimed: any four bytes other than "mohd" end the read in
\* InvalidModuleMagic, and the error carries exactly those four bytes as text.
C4_MagicReportedVerbatim ==
    BadMagic => result = "err" /\ error = InvalidModuleMagic(First4)

\* C4 amended: any four bytes other than "mohd" end the read in
\* InvalidModuleMagic; the error carries the text read_fixed_string makes of
\* them: the four bytes decoded leniently (a byte that is not UTF-8 becomes
\* U+FFFD) with the trailing NUL characters removed.
C4_MagicReportedTrimmed ==
    BadMagic =>
        /\ result = "err"
        /\ error = InvalidModuleMagic(
                     SubSeq(TextOf(First4), 1, TrimmedLen(TextOf(First4))))

\* the magic "mo\0\0" was refused and reported as "mo"
C4_Witness ==
    /\ BadMagic
    /\ First4 = << 109, 111, 0, 0 >>
    /\ error = InvalidModuleMagic(<< 109, 111 >>)

GoodMagic == Len(stream) >= 8 /\ First4 = Mohd
KnownVersion == IsU32(VersionBytes, 27) \/ IsU32(VersionBytes, 23)

\* C5: the header is decoded only for version 23 or 27: any other version
\* ends the read in InvalidModuleVersion carrying it, with the position after
\* the version and every later field still at its default; a version-27
\* header holds the eight bytes after build_version as its checksum, a
\* version-23 header keeps the default checksum and ends eight bytes earlier.
C5_VersionGate ==
    /\ (pc = "entries") =>
          /\ GoodMagic /\ KnownVersion
          /\ IsU32(header.version, 27) =>
                header.checksum = SubSeq(stream, 49, 56) /\ pos = U64(56)
          /\ IsU32(header.version, 23) =>
                header.checksum = Zeros(8) /\ pos = U64(48)
    /\ (pc # "header" /\ GoodMagic /\ ~KnownVersion) =>
          /\ result = "err"
          /\ error = InvalidModuleVersion(VersionBytes)
          /\ pos = U64(8)
          /\ header = [DefaultHeader EXCEPT !.magic = Mohd, !.version = VersionBytes]

\* a version-23 header was decoded from a stream that goes on after it
C5_Witness ==
    /\ pc = "entries"
    /\ IsU32(header.version, 23)
    /\ pos = U64(48)
    /\ Len(stream) >= 56 /\ SubSeq(stream, 49, 56) # Zeros(8)
    /\ header.checksum = Zeros(8)

ErrorKinds ==
    { "InvalidModuleMagic", "InvalidModuleVersion", "EmptyTag",
      "NonCompressedSingleTag", "Io" }

\* C6: the read ends with Ok or with an error value of one of the five kinds;
\* it never ends abnormally.
C6_EndsWithOkOrError ==
    (pc = "done") => \/ result = "ok"
                     \/ result = "err" /\ error.kind \in ErrorKinds


\* the seeks and reads logged for the data of entry i, and for its name
TagOps(log, i) == SelectSeq(log, LAMBDA o : o.what = "tag" /\ o.id = i)
NameSeeks(log, i) ==
    SelectSeq(log, LAMBDA o : o.what = "name" /\ o.id = i /\ o.op = "seek")

\* the ids of the tag operations of a log never decrease and stay within top
Ascending(log, top) ==
    \A k \in 1..Len(log) :
        log[k].what = "tag" =>
            /\ log[k].id <= top
            /\ \A j \in 1..k : log[j].what = "tag" => log[j].id <= log[k].id

\* C7: the entries are reconstructed in ascending order; a step of the loop
\* that fails ends the read with the failure and leaves the failing entry and
\* every later one with an empty buffer and every later one without a seek or
\* a read; the loop goes on only past entries that were reconstructed, and
\* once the read has ended nothing more is done.
C7_FailureAborts ==
    [][ /\ pc # "done"
        /\ (pc = "tags") =>
              /\ Ascending(ops', id)
              /\ \A i \in 1..Len(files) : i - 1 > id => files'[i] = files[i]
              /\ (result' \in {"running", "ok"}) =>
                    /\ id' = id + 1
                    /\ \A i \in 1..Len(files) : i - 1 < id' => files'[i].data # << >>
                    /\ (result' = "ok") <=> (id' = Len(files))
              /\ (result' \notin {"running", "ok"}) =>
                    /\ pc' = "done" /\ id' = id
                    /\ (result' = "err") => error' # NoError
                    /\ \A i \in 1..Len(files) : i - 1 >= id => files'[i].data = << >>
      ]_vars

\* the first entry failed, the second was never looked at
C7_Witness ==
    /\ pc = "done" /\ result = "err" /\ error = NonCompressedSingleTag
    /\ Len(files) = 2 /\ id = 0
    /\ TagOps(ops, 0) # << >> /\ TagOps(ops, 1) = << >>
    /\ files[2].data = << >>
    /\ files[2].total_uncompressed_size # Zeros(4)

IsForge == IsU32(header.version, 27)
HeaderSize == IF IsForge THEN 56 ELSE 48
BlockRecordSize == IF IsForge THEN 32 ELSE 20

\* the position moved on by n bytes in a step
Advanced(n) == IF n = 0 THEN pos' = pos ELSE pos' = U64(Sat(pos) + n)

\* the k-th block record (from 1) of a table that begins at position p holds
\* the five u32 fields after the leading checksum, if the format has one
RecordDecoded(b, p, k) ==
    LET at == p + BlockRecordSize * (k - 1) + (IF IsForge THEN 8 ELSE 0)
    IN  /\ b.compressed_offset = SubSeq(stream, at + 1, at + 4)
        /\ b.compressed_size = SubSeq(stream, at + 5, at + 8)
        /\ b.uncompressed_offset = SubSeq(stream, at + 9, at + 12)
        /\ b.uncompressed_size = SubSeq(stream, at + 13, at + 16)
        /\ b.compressed = (SubSeq(stream, at + 17, at + 20) # Zeros(4))
        /\ IsForge => /\ b.checksum = SubSeq(stream, at - 7, at)
                      /\ b.padding = SubSeq(stream, at + 21, at + 24)

\* the first seek for the data of entry i goes to the entry's region base,
\* data_offset + entry.data_offset as a u64 sum (plus the first block's
\* compressed_offset when the entry is rebuilt from blocks)
FirstSeekAtRegionBase(log, i) ==
    LET file == files[i + 1]
        base == Trunc(AddCarry(data_offset, file.data_offset, 0), 8)
        first == blocks[Sat(file.first_block_index) + 1]
        want == IF Contains(file.flags, HAS_BLOCKS)
                THEN Trunc(AddCarry(base, Zext(first.compressed_offset, 8), 0), 8)
                ELSE base
    IN  TagOps(log, i) # << >> =>
            /\ TagOps(log, i)[1].op = "seek"
            /\ TagOps(log, i)[1].at = want
            /\ (Sat(data_offset) < Huge /\ Sat(file.data_offset) < Huge
                  /\ ~Contains(file.flags, HAS_BLOCKS))
                 => Sat(TagOps(log, i)[1].at) = Sat(data_offset) + Sat(file.data_offset)

\* C8: a version-27 header takes 56 bytes and a version-23 header 48; the
\* resource indices take 4 bytes each; a block record takes 32 bytes in
\* version 27 (checksum, five u32, padding) and 20 in version 23; data_offset
\* is the position after the block table; the data of every entry is sought
\* from data_offset + entry.data_offset.
C8_RecordSizes ==
    [][ /\ (pc = "header" /\ pc' = "entries") => pos' = U64(HeaderSize')
        /\ (pc = "resources" /\ pc' = "blocks") =>
              /\ Len(resource_indices') = Sat(header.resource_count)
              /\ Advanced(4 * Sat(header.resource_count))
        /\ (pc = "blocks" /\ pc' = "data_offset") =>
              /\ Len(blocks') = Sat(header.block_count)
              /\ Advanced(Sat(header.block_count) * BlockRecordSize)
              /\ \A k \in 1..Len(blocks') : RecordDecoded(blocks'[k], Sat(pos), k)
        /\ (pc = "data_offset") => data_offset' = pos
        /\ (pc = "tags") => FirstSeekAtRegionBase(ops', id)
      ]_vars

\* a version-23 module with resource indices and two block records was read
\* and an entry's data sought at its region base
C8_Witness ==
    /\ pc = "done" /\ result = "ok"
    /\ ~IsForge
    /\ Sat(header.resource_count) = 2 /\ Len(blocks) = 2
    /\ Sat(data_offset) = 48 + 88 + 5 + 4 * 2 + 20 * 2
    /\ Len(files) = 1 /\ TagOps(ops, 0) # << >>
    /\ blocks[2].compressed_offset = U32(13) /\ ~blocks[2].compressed

\* the name pass is over
NamesResolved == pc = "resources"

\* C9: when the name pass is over every entry has had exactly one seek for its
\* name, to the true sum of the name-table base and its name_offset.
C9_NameSeekAtTrueSum ==
    NamesResolved =>
        \A i \in 0..(Len(files) - 1) :
            /\ Len(NameSeeks(ops, i)) = 1
            /\ NameSeeks(ops, i)[1].at \o << 0 >>
                 = AddCarry(name_offset, Zext(files[i + 1].name_offset, 8), 0)

LastFile == files[Len(files)]

\* C10 as claimed: the resource indices are read from the byte after the
\* terminator of the last entry's name, at name-table base + last.name_offset
\* + length of the name + 1 (from the base itself when there is no entry).
C10_AfterLastTerminator ==
    NamesResolved =>
        IF files = << >> THEN pos = name_offset
        ELSE Sat(pos) = Sat(name_offset) + Sat(LastFile.name_offset)
                          + Len(LastFile.name) + 1

\* the target of the last entry's name seek: the 32-bit sum of the base and
\* the entry's name_offset
LastNameAt == Zext(WrapAdd(Trunc(name_offset, 4), LastFile.name_offset), 8)

\* C10 amended: the resource indices are read from where the name pass left
\* the stream: the name-table base when there is no entry; otherwise the
\* target of the last entry's name seek (base + last.name_offset as a 32-bit
\* sum) plus the length of that name, plus 1 when the stream holds the name's
\* terminator; a name that runs to the end of the stream, or a seek past the
\* end, leaves the position without that 1.  header.strings_size plays no part.
C10_AfterLastNameRead ==
    NamesResolved =>
        IF files = << >> THEN pos = name_offset
        ELSE IF Sat(LastNameAt) + Len(LastFile.name) < Len(stream)
             THEN pos = U64(Sat(LastNameAt) + Len(LastFile.name) + 1)
             ELSE IF LastFile.name = << >> THEN pos = LastNameAt
             ELSE pos = U64(Sat(LastNameAt) + Len(LastFile.name))

\* two entries whose names lie in reverse order: the resource indices are
\* read from inside the name table, not from its end
C10_Witness ==
    /\ NamesResolved
    /\ Len(files) = 2
    /\ files[1].name_offset = U32(2) /\ files[2].name_offset = U32(0)
    /\ files[1].name = << 98, 99 >> /\ files[2].name = << 97 >>
    /\ Sat(pos) = Sat(name_offset) + 2
    /\ Sat(pos) < Sat(name_offset) + Len(NameTable)

=============================================================================
